---- MODULE Spec2Model ----
(***************************************************************************)
(* Reddit_MatchMaker: process_responses in its two entry points             *)
(* src/main.py ("main") and src/immediate_response_script.py ("immediate"): *)
(* setup_sheet on the header row, then the loop over the data rows.         *)
(*                                                                         *)
(* The sheet is its row 1 (the header cells) and the three cells (Status,   *)
(* Code, DM Status) of the data rows; sheet rows are numbered as the code   *)
(* numbers them, the data from 2.  The collaborators (sheet store, account  *)
(* lookup, message delivery) answer nondeterministically: every sheet call  *)
(* may raise, a lookup may fail or return an age, a send may fail.  A run   *)
(* is followed by any number of further runs over the same sheet.           *)
(*                                                                         *)
(* Spec follows whole runs on a few header rows; SpecSetup applies          *)
(* setup_sheet alone to every header row of a bounded set.                  *)
(***************************************************************************)
EXTENDS Integers, Sequences, FiniteSets, TLC

\* ------------------------------------------------------------------ bounds
NumRows == 2
NumCodes == 2
MaxHeader == 5

\* --------------------------------------------------------------- constants
MIN_ACCOUNT_AGE_DAYS == 90
MAX_DM_RETRIES == 3
FirstRow == 2
SendDelay == 20
RetryDelay == 120


\* generate_code: a digest of the handle and the clock; two calls need not
\* agree, so the result is one of NumCodes distinct non-empty codes.
Codes == 1 .. NumCodes
Empty == 0

\* ------------------------------------------------------------------ strings
\* A string is a sequence of symbols.  Handles are written letter by letter
\* over {"u", "U", "/", "a", " "}; a DM preference is written with one symbol
\* per word, the two accepted literals being <<"Yes">> and <<"Maybe">>; a
\* display name of a column is one symbol, a blank around it another.
RECURSIVE LStrip(_)
LStrip(s) == IF s # << >> /\ s[1] = " " THEN LStrip(Tail(s)) ELSE s

RECURSIVE RStrip(_)
RStrip(s) ==
  IF s # << >> /\ s[Len(s)] = " " THEN RStrip(SubSeq(s, 1, Len(s) - 1)) ELSE s

\* str.strip(): the blanks at both ends are dropped
Strip(s) == RStrip(LStrip(s))

\* str.lower, symbol by symbol: every symbol of the model that holds a
\* capital letter, with what lower() makes of it
LowerTable ==
  ("U" :> "u") @@ ("A" :> "a")
    @@ ("Reddit Username:" :> "reddit username:")
    @@ ("Do You Accept DM Notifications About Your Match?"
          :> "do you accept dm notifications about your match?")
    @@ ("Code" :> "code") @@ ("Status" :> "status")
    @@ ("DM Status" :> "dm status") @@ ("Timestamp" :> "timestamp")

LowerChar(c) == IF c \in DOMAIN LowerTable THEN LowerTable[c] ELSE c

Lower(s) == [i \in 1..Len(s) |-> LowerChar(s[i])]

StartsWith(s, p) == Len(s) >= Len(p) /\ SubSeq(s, 1, Len(p)) = p

Prefix == <<"u", "/">>

\* s.split('u/')[-1]: what follows the last occurrence of 'u/' in s, the
\* whole of s when there is none.
SplitLast(s) ==
  LET at == { i \in 1..(Len(s) - 1) : SubSeq(s, i, i + 1) = Prefix }
  IN IF at = {} THEN s
     ELSE LET m == CHOOSE i \in at : \A j \in at : j <= i
          IN SubSeq(s, m + 2, Len(s))

\* username.split('u/')[-1].strip(), the account name of is_eligible and send_dm
AccountName(u) == Strip(SplitLast(u))

ACCEPTED == { <<"Yes">>, <<"Maybe">> }

SKIP_LIST == { "Processed", "Rejected", "Opted Out" }

Statuses == { "", "Processed", "Rejected", "Opted Out", "Invalid Format",
              "Failed", "Error" }

SentMarker == "Sent"
FailedMarker == "Not sent"

\* what the form left in the two input columns of a row
RawHandles == { <<"u", "/", "a">>, <<" ", "U", "/", "a">>, <<"a">> }
Missing == <<"<no such key>">>
RawPrefs == { <<"Yes">>, <<" ", "Maybe", " ">>, <<"No", "thanks">>, Missing }

\* what the account directory answers: an exception, or an age in whole days
LookupFailures == { "NotFound", "NetworkError", "RateLimited" }
LookupResults ==
  [ error : LookupFailures, days : { 0 } ]
    \cup [ error : { "" }, days : { MIN_ACCOUNT_AGE_DAYS - 1, MIN_ACCOUNT_AGE_DAYS } ]

\* ------------------------------------------------------------ setup_sheet
\* COLUMN_MAP (main.py) and REQUIRED_COLUMNS (immediate_response_script.py):
\* the same five keys with the same display names, in this order.
Keys == <<"username", "dm_pref", "code", "status", "dm_status">>

NameUsername == << "Reddit Username:" >>

NameDmPref == << "Do You Accept DM Notifications About Your Match?" >>

NameCode == << "Code" >>

NameStatus == << "Status" >>

NameDmStatus == << "DM Status" >>

COLUMN_MAP ==
  [ username |-> NameUsername, dm_pref |-> NameDmPref, code |-> NameCode,
    status |-> NameStatus, dm_status |-> NameDmStatus ]

\* COLUMN_MAP.values(), in the order of the dictionary
ColumnNames == [i \in 1..Len(Keys) |-> COLUMN_MAP[Keys[i]]]

\* list.index(x) + 1: the 1-based place of the first x, 0 where the code gets
\* ValueError
IndexOf(list, x) ==
  LET at == { i \in 1..Len(list) : list[i] = x }
  IN IF at = {} THEN 0 ELSE CHOOSE i \in at : \A j \in at : i <= j

\* headers = [h.strip() for h in sheet.row_values(1)]
StripAll(row) == [i \in 1..Len(row) |-> Strip(row[i])]

\* the keys of normalized_headers: h.strip().lower() of every header
NormalizedHeaders(headers) ==
  { Lower(Strip(headers[i])) : i \in 1..Len(headers) }

\* new_columns: the names main.py does not find by headers.index(col_name),
\* the names whose col.strip().lower() is no key of normalized_headers in
\* immediate_response_script.py; in the order of the dictionary.
NewColumns(v, headers) ==
  SelectSeq(ColumnNames,
            LAMBDA n : IF v = "main"
                         THEN IndexOf(headers, n) = 0
                         ELSE Lower(Strip(n)) \notin NormalizedHeaders(headers))

\* A1 notation.  A label is the letters of the column (1 for A .. 26 for Z,
\* most significant first) followed by the decimal digits of the row.
RECURSIVE ColumnLetters(_)
ColumnLetters(c) ==
  IF c = 0 THEN << >>
  ELSE ColumnLetters((c - 1) \div 26) \o << ((c - 1) % 26) + 1 >>

RECURSIVE Digits(_)
Digits(n) == IF n < 10 THEN << n >> ELSE Digits(n \div 10) \o << n % 10 >>

\* gspread.utils.rowcol_to_a1(row, col): the label of the cell, with its row
\* (rowcol_to_a1(1, 4) is 'D1')
RowColToA1(row, c) == [letters |-> ColumnLetters(c), digits |-> Digits(row)]

\* update_range = f"{gspread.utils.rowcol_to_a1(1, end_col+1)}1": the label of
\* the cell, then the character '1'
UpdateRange(end_col) ==
  LET label == RowColToA1(1, end_col + 1)
  IN [label EXCEPT !.digits = @ \o << 1 >>]

RECURSIVE Base(_, _)
Base(ds, b) ==
  IF ds = << >> THEN 0
  ELSE Base(SubSeq(ds, 1, Len(ds) - 1), b) * b + ds[Len(ds)]

\* the cell a label names, as the sheet store reads it: << row, column >>
A1ToRowCol(label) == << Base(label.digits, 10), Base(label.letters, 26) >>

\* sheet.update(update_range, [new_columns]): one row of values laid out to
\* the right of the cell the range names
BatchCells(range, values) ==
  LET at == A1ToRowCol(range)
  IN { [row |-> at[1], col |-> at[2] + i - 1, value |-> values[i]] :
         i \in 1..Len(values) }

\* the final loop: col_indices[key] = headers.index(col_name) + 1 for every
\* key, over the list after headers += new_columns; 0 where headers.index
\* raises ValueError
ColumnIndices(extended) ==
  [k \in { Keys[i] : i \in 1..Len(Keys) } |-> IndexOf(extended, COLUMN_MAP[k])]

NoColumns == [k \in { Keys[i] : i \in 1..Len(Keys) } |-> 0]

\* the calls of setup_sheet on the sheet store, each of which may raise
SetupCalls == <<"row_values", "add_cols", "update">>

\* ------------------------------------------------------------------- rows
\* The sheet has the data rows FirstRow .. LastRow: it is as long as the row
\* that the range of setup_sheet names.  The model follows the cells of
\* NumRows of them, the first NumRows - 1 and the last; the rows between are
\* processed by the same loop body and share no cell with the others.
LastRow == A1ToRowCol(UpdateRange(0))[1]

Rows == (FirstRow .. (FirstRow + NumRows - 2)) \cup { LastRow }

\* the row the loop comes to after row i
Following(i) ==
  IF \E r \in Rows : r > i
    THEN CHOOSE r \in Rows : r > i /\ \A q \in Rows : q > i => r <= q
    ELSE i + 1

\* ------------------------------------------------------------ header rows
\* what sheet.row_values(1) can hold in a cell: a required name as it is,
\* padded with blanks or in another letter case, or a column of the form
\* that the program does not use
Padded(name) == <<" ">> \o name \o <<" ", " ">>

HeaderCells ==
  { NameUsername, NameDmPref, NameCode, NameStatus, NameDmStatus,
    Padded(NameCode), Lower(NameStatus),
    << "Timestamp" >> }

RECURSIVE SeqsUpTo(_, _)
SeqsUpTo(S, n) ==
  IF n = 0 THEN { << >> }
  ELSE LET shorter == SeqsUpTo(S, n - 1)
       IN shorter \cup { Append(q, x) : q \in shorter, x \in S }

\* the header rows setup_sheet is applied to
HeaderRows == SeqsUpTo(HeaderCells, MaxHeader)

\* the header rows followed through whole runs: every required column in
\* place; the sheet as the form creates it; that sheet with a 'status'
\* column someone added by hand
CompleteHeader ==
  << NameUsername, NameDmPref, NameCode, NameStatus, NameDmStatus >>

FormHeader == << NameUsername, NameDmPref >>

SheetHeaders ==
  { CompleteHeader, FormHeader, Append(FormHeader, Lower(NameStatus)) }

\* a display name as the text of a Status or DM Status cell
TextOf(name) == name[1]

\* a display name in a Code cell: not empty, and none of the generated codes
TextInCodeCell == NumCodes + 1

VARIABLES
  variant,         \* which entry point runs: "main" or "immediate"
  pc,              \* position of process_responses
  idx,             \* the loop's row index
  status, code, dm_status,   \* the sheet: cell of each data row
  username, dm_pref, current_status, gen, attempt, success,  \* locals
  events,          \* what the current row's iteration has done so far
  row0,            \* the current row's cells when its iteration began
  raised,          \* an exception was raised in the current row's try body
  snap,            \* cells of every other row: as the run found them (rows
                   \* ahead) or as their iteration left them (rows behind)
  rowOps,          \* this run has read or written a data row, looked up or sent
  cause,           \* why the run ended early, "" otherwise
  header,          \* the sheet: row 1, the cells sheet.row_values(1) returns
  col,             \* the mapping setup_sheet returned to this run
  batch            \* the cells below row 1 that setup_sheet has written

vars == << variant, pc, idx, status, code, dm_status, username, dm_pref,
           current_status, gen, attempt, success, events, row0, raised,
           snap, rowOps, cause, header, col, batch >>

sheet == << status, code, dm_status >>
locals == << username, dm_pref, current_status, gen, attempt, success >>
setup == << header, col, batch >>

Cells(r) == [status |-> status[r], code |-> code[r], dm_status |-> dm_status[r]]

NoCells == [status |-> "-", code |-> Empty, dm_status |-> "-"]


\* ------------------------------------------------------- decisions of the code
\* current_status in ['Processed', 'Rejected', 'Opted Out']
InSkipList(s) == s \in SKIP_LIST

\* variant: any answer that is not blank counts as consent
AcceptedNonEmpty(p) == p # << >>

\* dm_pref in [the two accepted literals]
Accepted(p) == p \in ACCEPTED

\* variant: any handle that is not blank passes the format check
ValidFormatNonEmpty(u) == u # << >>

\* username.lower().startswith('u/')
ValidFormat(u) == StartsWith(Lower(u), Prefix)

\* variant: except Exception: return True
IsEligibleFailOpen(res) == res.error # "" \/ res.days >= MIN_ACCOUNT_AGE_DAYS

\* is_eligible: age.days >= MIN_ACCOUNT_AGE_DAYS, False on any exception
IsEligible(res) == res.error = "" /\ res.days >= MIN_ACCOUNT_AGE_DAYS

\* variant: the code is written without looking at the cell
CodeCellAny(v) == TRUE

\* if not sheet.cell(idx, col['code']).value
CodeCellEmpty(v) == v = Empty

\* variant: attempt>1
IsRetryFromSecond(a) == a > 1

\* send_dm(reddit, username, message, attempt>0)
IsRetry(a) == a > 0

\* 'Processed' if success else 'Failed'
FinalStatus(ok) == IF ok THEN "Processed" ELSE "Failed"

\* variant: the success marker whatever the outcome
FinalDmStatusAlwaysSent(ok) == SentMarker

\* the DM-status marker written with it
FinalDmStatus(ok) == IF ok THEN SentMarker ELSE FailedMarker

\* str(row.get(COLUMN_MAP['dm_pref'], '')) in main.py,
\* str(row[REQUIRED_COLUMNS['dm_pref']]) in immediate_response_script.py:
\* the second raises KeyError when the record has no such key.
PrefLookupRaises(v, p) == v = "immediate" /\ p = Missing

PrefValue(p) == IF p = Missing THEN << >> ELSE p

\* one call of send_dm: the send, then time.sleep(20) when it did not raise
SendDm(kind, u, retry, ok, c) ==
  << <<"send", kind, AccountName(u), retry, ok, c>> >>
    \o (IF ok THEN << <<"sleep", SendDelay>> >> ELSE << >>)

\* time.sleep(120) after a failed attempt: immediate_response_script.py only
RetrySleep(v) == IF v = "immediate" THEN << <<"sleep", RetryDelay>> >> ELSE << >>

\* ---------------------------------------------------------------------- Init
InitRest ==
  /\ variant \in { "main", "immediate" }
  /\ idx = FirstRow
  /\ status = [r \in Rows |-> ""]
  /\ code = [r \in Rows |-> Empty]
  /\ dm_status = [r \in Rows |-> ""]
  /\ username = << >>
  /\ dm_pref = << >>
  /\ current_status = ""
  /\ gen = Empty
  /\ attempt = 0
  /\ success = FALSE
  /\ events = << >>
  /\ row0 = NoCells
  /\ raised = FALSE
  /\ snap = [r \in Rows |-> [status |-> "", code |-> Empty, dm_status |-> ""]]
  /\ rowOps = FALSE
  /\ cause = ""
  /\ col = NoColumns
  /\ batch = {}

\* a fresh sheet under one of the header rows followed through whole runs
Init ==
  /\ InitRest
  /\ pc = "start"
  /\ header \in SheetHeaders

\* an exception that leaves process_responses: main.py catches it in its outer
\* try and logs "Fatal error"; immediate_response_script.py has no outer try.
Abort(why) ==
  /\ pc' = IF variant = "main" THEN "fatal" ELSE "crashed"
  /\ cause' = why

\* an exception inside the row's try body
Raise ==
  /\ pc' = "except"
  /\ raised' = TRUE

\* ------------------------------------------------------------------ the run
\* praw.Reddit(...), the credentials, gspread.authorize, open(SHEET_NAME).sheet1
Connect ==
  /\ pc = "start"
  /\ \E ok \in BOOLEAN :
       IF ok THEN pc' = "setup" /\ cause' = cause
             ELSE Abort("connect")
  /\ UNCHANGED << variant, setup, idx, sheet, locals, events, row0, raised, snap, rowOps >>

\* row 1 of the sheet once the cells have been written
HeaderAfter(row1, cells) ==
  LET top == { c \in cells : c.row = 1 }
      width == IF top = {} THEN Len(row1)
               ELSE LET last == CHOOSE c \in top : \A d \in top : d.col <= c.col
                    IN IF last.col > Len(row1) THEN last.col ELSE Len(row1)
  IN [i \in 1..width |->
        IF \E c \in top : c.col = i
          THEN (CHOOSE c \in top : c.col = i).value
          ELSE IF i <= Len(row1) THEN row1[i] ELSE << >>]

\* the values the batch write has put into the cell (r, c)
Written(cells, r, c) == { w.value : w \in { x \in cells : x.row = r /\ x.col = c } }

\* a Status or DM Status cell (r, c) of a data row once the cells have been
\* written; `old` is what it held
CellAfter(cells, r, c, old) ==
  IF Written(cells, r, c) = {} THEN old
  ELSE TextOf(CHOOSE v \in Written(cells, r, c) : TRUE)

\* the same for a Code cell
CodeCellAfter(cells, r, c, old) ==
  IF Written(cells, r, c) = {} THEN old ELSE TextInCodeCell

\* setup_sheet, from its last step to its first.  `failing` is the call of
\* SetupCalls that raises, 0 when none does.
\*
\* The end of setup_sheet: it returns the mapping `ci`, or an exception leaves
\* it: the sheet store's, or the one of the final loop (headers.index raises
\* ValueError, which immediate_response_script.py turns into RuntimeError).
\* When it returns the run goes on to the records; RuntimeError is caught by
\* immediate_response_script.py, which prints it and returns; any other
\* exception leaves process_responses.  `cells` are the cells it has written.
SetupReturn(ci, cells, failing) ==
  LET exc == IF failing # 0 THEN "APIError"
             ELSE IF \A k \in DOMAIN ci : ci[k] # 0 THEN ""
             ELSE IF variant = "main" THEN "ValueError" ELSE "RuntimeError"
  IN /\ header' = HeaderAfter(header, cells)
     /\ batch' = batch \cup { c \in cells : c.row > 1 }
     /\ status' = [r \in Rows |->
                     CellAfter(cells, r, ci["status"], status[r])]
     /\ code' = [r \in Rows |->
                   CodeCellAfter(cells, r, ci["code"], code[r])]
     /\ dm_status' = [r \in Rows |->
                        CellAfter(cells, r, ci["dm_status"], dm_status[r])]
     /\ rowOps' = (rowOps \/ \E c \in cells : c.row > 1)
     /\ col' = IF exc = "" THEN ci ELSE NoColumns
     /\ CASE exc = "" -> pc' = "records" /\ cause' = cause
          [] exc = "RuntimeError" -> pc' = "fatal" /\ cause' = "setup"
          [] OTHER -> Abort("setup")

\* if new_columns: add_cols, the batch write at update_range, and
\* headers += new_columns; then the final loop.  add_cols appends empty
\* columns at the right edge of the grid: no cell changes with it, and the
\* width of the grid is not followed.
SetupAddMissing(headers, new, failing) ==
  /\ failing > 1 => new # << >>
  /\ SetupReturn(ColumnIndices(headers \o new),
                 IF new # << >> /\ failing = 0
                   THEN BatchCells(UpdateRange(Len(headers)), new)
                   ELSE {},
                 failing)

\* the search for the required names among the trimmed headers.  (The
\* col_map entries that immediate_response_script.py makes in this search
\* are all assigned again by the final loop, or lost when it raises.)
SetupFind(headers, failing) ==
  SetupAddMissing(headers, NewColumns(variant, headers), failing)

\* col = setup_sheet(sheet)
SetupSheet ==
  /\ pc = "setup"
  /\ \E failing \in 0..Len(SetupCalls) : SetupFind(StripAll(header), failing)
  /\ snap' = [r \in Rows |->
                [status |-> status'[r], code |-> code'[r],
                 dm_status |-> dm_status'[r]]]
  /\ UNCHANGED << variant, idx, locals, events, row0, raised >>

\* records = sheet.get_all_records(), then the loop starts at row 2
GetAllRecords ==
  /\ pc = "records"
  /\ \E ok \in BOOLEAN :
       IF ok THEN pc' = "loop" /\ cause' = cause
             ELSE Abort("records")
  /\ idx' = FirstRow
  /\ rowOps' = TRUE
  /\ UNCHANGED << variant, setup, sheet, locals, events, row0, raised, snap >>

\* for idx, row in enumerate(records, start=2): the next iteration begins
BeginRow ==
  /\ pc = "loop"
  /\ idx <= LastRow
  /\ pc' = "status"
  /\ row0' = snap[idx]
  /\ snap' = [snap EXCEPT ![idx] = NoCells]
  /\ UNCHANGED << variant, setup, idx, sheet, locals, events, raised, rowOps, cause >>

\* the loop is exhausted: process_responses returns
Finish ==
  /\ pc = "loop"
  /\ idx > LastRow
  /\ pc' = "done"
  /\ UNCHANGED << variant, setup, idx, sheet, locals, events, row0, raised, snap,
                  rowOps, cause >>

\* current_status = sheet.cell(idx, col['status']).value; skip if terminal
ReadStatus ==
  /\ pc = "status"
  /\ rowOps' = TRUE
  /\ \E ok \in BOOLEAN :
       /\ events' = Append(events, <<"read", "status", ok>>)
       /\ IF ok
            THEN /\ current_status' = status[idx]
                 /\ pc' = IF InSkipList(status[idx]) THEN "rowend" ELSE "data"
                 /\ raised' = raised
            ELSE /\ Raise
                 /\ current_status' = current_status
  /\ UNCHANGED << variant, setup, idx, sheet, username, dm_pref, gen, attempt, success,
                  row0, snap, cause >>

\* username = str(row.get(...)).strip(); dm_pref = str(row...).strip()
GetUserData ==
  /\ pc = "data"
  /\ \E u \in RawHandles, p \in RawPrefs :
       /\ events' = Append(events, <<"record", u, p>>)
       /\ username' = Strip(u)
       /\ IF PrefLookupRaises(variant, p)
            THEN /\ Raise
                 /\ dm_pref' = dm_pref
            ELSE /\ dm_pref' = Strip(PrefValue(p))
                 /\ pc' = "checks"
                 /\ raised' = raised
  /\ UNCHANGED << variant, setup, idx, sheet, current_status, gen, attempt, success,
                  row0, snap, rowOps, cause >>

\* sheet.update_cell(idx, col['status'], v); continue
WriteStatusAndContinue(v) ==
  \E ok \in BOOLEAN :
    /\ events' = Append(events, <<"write", "status", v, ok>>)
    /\ IF ok
         THEN /\ status' = [status EXCEPT ![idx] = v]
              /\ pc' = "rowend"
              /\ raised' = raised
         ELSE /\ Raise
              /\ status' = status
    /\ UNCHANGED << variant, setup, idx, code, dm_status, locals, row0, snap, rowOps, cause >>

\* DM preference check
OptedOut ==
  /\ pc = "checks"
  /\ ~Accepted(dm_pref)
  /\ WriteStatusAndContinue("Opted Out")

\* variant: the handle is validated whatever the DM preference
InvalidFormatAnyPreference ==
  /\ pc = "checks"
  /\ ~ValidFormat(username)
  /\ WriteStatusAndContinue("Invalid Format")

\* Validate username format
InvalidFormat ==
  /\ pc = "checks"
  /\ Accepted(dm_pref)
  /\ ~ValidFormat(username)
  /\ WriteStatusAndContinue("Invalid Format")

\* if not is_eligible(reddit, username)
CheckEligibility ==
  /\ pc = "checks"
  /\ Accepted(dm_pref)
  /\ ValidFormat(username)
  /\ \E res \in LookupResults :
       /\ events' = Append(events, <<"lookup", AccountName(username), res>>)
       /\ pc' = IF IsEligible(res) THEN "generate" ELSE "reject"
  /\ UNCHANGED << variant, setup, idx, sheet, locals, row0, raised, snap, rowOps, cause >>

\* variant: the rejection is sent again, as a retry, when the first send fails
SendRejectionRetried ==
  /\ pc = "reject"
  /\ \E ok \in BOOLEAN, ok2 \in BOOLEAN :
       events' = events \o SendDm("rejection", username, FALSE, ok, Empty)
                        \o (IF ok THEN << >>
                                  ELSE SendDm("rejection", username, TRUE, ok2, Empty))
  /\ pc' = "rejected"
  /\ UNCHANGED << variant, setup, idx, sheet, locals, row0, raised, snap, rowOps, cause >>

\* send_dm(reddit, username, rejection_msg)
SendRejection ==
  /\ pc = "reject"
  /\ \E ok \in BOOLEAN :
       events' = events \o SendDm("rejection", username, FALSE, ok, Empty)
  /\ pc' = "rejected"
  /\ UNCHANGED << variant, setup, idx, sheet, locals, row0, raised, snap, rowOps, cause >>

\* sheet.update_cell(idx, col['status'], 'Rejected'); continue
MarkRejected ==
  /\ pc = "rejected"
  /\ WriteStatusAndContinue("Rejected")

\* code = generate_code(username); write it when the code cell is empty
GenerateCode ==
  /\ pc = "generate"
  /\ \E c \in Codes, readOk \in BOOLEAN, writeOk \in BOOLEAN :
       /\ gen' = c
       /\ IF ~readOk
            THEN /\ events' = Append(events, <<"read", "code", FALSE>>)
                 /\ Raise
                 /\ code' = code
            ELSE IF ~CodeCellEmpty(code[idx])
              THEN /\ writeOk
                   /\ events' = Append(events, <<"read", "code", TRUE>>)
                   /\ code' = code
                   /\ pc' = "send"
                   /\ raised' = raised
              ELSE /\ events' = events \o << <<"read", "code", TRUE>>,
                                              <<"write", "code", c, writeOk>> >>
                   /\ IF writeOk
                        THEN /\ code' = [code EXCEPT ![idx] = c]
                             /\ pc' = "send"
                             /\ raised' = raised
                        ELSE /\ Raise
                             /\ code' = code
  /\ attempt' = 0
  /\ success' = FALSE
  /\ UNCHANGED << variant, setup, idx, status, dm_status, username, dm_pref,
                  current_status, row0, snap, rowOps, cause >>

\* one pass of the retry loop: any(send_dm(..., attempt>0) for attempt in
\* range(MAX_DM_RETRIES)) in main.py; the for loop with break and
\* time.sleep(120) in immediate_response_script.py
SendAttempt ==
  /\ pc = "send"
  /\ attempt < MAX_DM_RETRIES
  /\ \E ok \in BOOLEAN :
       /\ events' = events
                      \o SendDm("acceptance", username, IsRetry(attempt), ok, gen)
                      \o (IF ok THEN << >> ELSE RetrySleep(variant))
       /\ success' = ok
       /\ attempt' = attempt + 1
       /\ pc' = IF ok \/ attempt + 1 >= MAX_DM_RETRIES THEN "update" ELSE "send"
  /\ UNCHANGED << variant, setup, idx, sheet, username, dm_pref, current_status, gen,
                  row0, raised, snap, rowOps, cause >>

\* the two update_cell calls that close a delivered or failed row
UpdateStatus ==
  /\ pc = "update"
  /\ \E ok1 \in BOOLEAN, ok2 \in BOOLEAN :
       LET w1 == <<"write", "status", FinalStatus(success), ok1>>
           w2 == <<"write", "dm_status", FinalDmStatus(success), ok2>>
       IN IF ~ok1
            THEN /\ ok2
                 /\ events' = Append(events, w1)
                 /\ Raise
                 /\ UNCHANGED << status, dm_status >>
            ELSE /\ events' = events \o << w1, w2 >>
                 /\ status' = [status EXCEPT ![idx] = FinalStatus(success)]
                 /\ IF ok2
                      THEN /\ dm_status' = [dm_status EXCEPT ![idx] = FinalDmStatus(success)]
                           /\ pc' = "rowend"
                           /\ raised' = raised
                      ELSE /\ Raise
                           /\ dm_status' = dm_status
  /\ UNCHANGED << variant, setup, idx, code, locals, row0, snap, rowOps, cause >>

\* except Exception as e: print(...); sheet.update_cell(idx, col['status'], 'Error')
\* An exception of this update_cell is raised inside the handler, so it leaves
\* the loop (and with it the iteration's locals).
ExceptHandler ==
  /\ pc = "except"
  /\ \E ok \in BOOLEAN :
       IF ok
         THEN /\ events' = Append(events, <<"write", "status", "Error", TRUE>>)
              /\ status' = [status EXCEPT ![idx] = "Error"]
              /\ pc' = "rowend"
              /\ UNCHANGED << locals, row0, raised, cause >>
         ELSE /\ status' = status
              /\ Abort("handler")
              /\ username' = << >>
              /\ dm_pref' = << >>
              /\ current_status' = ""
              /\ gen' = Empty
              /\ attempt' = 0
              /\ success' = FALSE
              /\ events' = << >>
              /\ row0' = NoCells
              /\ raised' = FALSE
  /\ UNCHANGED << variant, setup, idx, code, dm_status, snap, rowOps >>

\* the iteration is over (continue, or the end of the loop body); every local
\* is assigned again before the next iteration reads it
NextRow ==
  /\ pc = "rowend"
  /\ snap' = [snap EXCEPT ![idx] = Cells(idx)]
  /\ idx' = Following(idx)
  /\ pc' = "loop"
  /\ username' = << >>
  /\ dm_pref' = << >>
  /\ current_status' = ""
  /\ gen' = Empty
  /\ attempt' = 0
  /\ success' = FALSE
  /\ events' = << >>
  /\ row0' = NoCells
  /\ raised' = FALSE
  /\ UNCHANGED << variant, setup, sheet, rowOps, cause >>

\* the script is started again on the same sheet
Rerun ==
  /\ pc \in { "done", "fatal", "crashed" }
  /\ pc' = "start"
  /\ idx' = FirstRow
  /\ username' = << >>
  /\ dm_pref' = << >>
  /\ current_status' = ""
  /\ gen' = Empty
  /\ attempt' = 0
  /\ success' = FALSE
  /\ events' = << >>
  /\ row0' = NoCells
  /\ raised' = FALSE
  /\ snap' = [r \in Rows |-> Cells(r)]
  /\ rowOps' = FALSE
  /\ cause' = ""
  /\ col' = NoColumns
  /\ UNCHANGED << variant, header, batch, sheet >>

Next ==
  \/ Connect
  \/ SetupSheet
  \/ GetAllRecords
  \/ BeginRow
  \/ Finish
  \/ ReadStatus
  \/ GetUserData
  \/ OptedOut
  \/ InvalidFormat
  \/ CheckEligibility
  \/ SendRejection
  \/ MarkRejected
  \/ GenerateCode
  \/ SendAttempt
  \/ UpdateStatus
  \/ ExceptHandler
  \/ NextRow
  \/ Rerun

Spec == Init /\ [][Next]_vars

\* setup_sheet alone, on every header row of HeaderRows
InitSetup ==
  /\ InitRest
  /\ pc = "setup"
  /\ header \in HeaderRows

NextSetup == SetupSheet

SpecSetup == InitSetup /\ [][NextSetup]_vars


\* ============================================================== properties
\* what the current iteration has done so far, by kind
EventsOf(kind) == SelectSeq(events, LAMBDA e : e[1] = kind)

Lookups == EventsOf("lookup")

Records == EventsOf("record")

AllSends == EventsOf("send")

SendsOf(kind) == SelectSeq(events, LAMBDA e : e[1] = "send" /\ e[2] = kind)

CodeWrites == SelectSeq(events, LAMBDA e : e[1] = "write" /\ e[2] = "code")

StatusWrites == SelectSeq(events, LAMBDA e : e[1] = "write" /\ e[2] = "status")

\* the wording of the claims, stated apart from the code's own tests
TerminalStatuses == { "Processed", "Rejected", "Opted Out" }

AcceptedLiterals == { <<"Yes">>, <<"Maybe">> }

HasHandlePrefix(h) == Len(h) >= 2 /\ h[1] \in { "u", "U" } /\ h[2] = "/"

LookupSaysNo(res) == res.error # "" \/ res.days < 90

\* the record of the current row has been read, with this verdict on its
\* trimmed preference and its trimmed handle
PrefRefused == Len(Records) = 1 /\ Strip(Records[1][3]) \notin AcceptedLiterals

PrefAccepted == Len(Records) = 1 /\ Strip(Records[1][3]) \in AcceptedLiterals

HandleOk == Len(Records) = 1 /\ HasHandlePrefix(Strip(Records[1][2]))

NotSkipped == row0 # NoCells /\ row0.status \notin TerminalStatuses

\* No iteration touches a row other than its own: every row ahead of the loop
\* is as the run found it, every row behind it as its iteration left it.
OtherRowsKept == \A r \in Rows : snap[r] # NoCells => Cells(r) = snap[r]

C2_InvalidFormat ==
  /\ OtherRowsKept
  /\ (NotSkipped /\ PrefAccepted /\ ~HandleOk) =>
       /\ Len(Lookups) = 0
       /\ Len(AllSends) = 0
       /\ Len(CodeWrites) = 0
       /\ gen = Empty
       /\ code[idx] = row0.code
       /\ (pc = "rowend" /\ ~raised => status[idx] = "Invalid Format")

C2_Witness ==
  /\ pc = "rowend" /\ ~raised
  /\ NotSkipped /\ PrefAccepted /\ ~HandleOk
  /\ Strip(Records[1][3]) = <<"Maybe">>
  /\ status[idx] = "Invalid Format"

\* C3: when the eligibility lookup of a row says no, exactly one rejection
\* message is attempted, never as a retry, no code is written and no
\* acceptance message sent, and the row ends as 'Rejected' whether or not that
\* one send succeeded.
C3_Rejected ==
  /\ OtherRowsKept
  /\ Len(Lookups) <= 1
  /\ (Len(Lookups) = 1 /\ LookupSaysNo(Lookups[1][3])) =>
       /\ NotSkipped /\ PrefAccepted /\ HandleOk
       /\ Len(SendsOf("acceptance")) = 0
       /\ Len(SendsOf("rejection")) = (IF pc = "reject" THEN 0 ELSE 1)
       /\ \A k \in 1..Len(AllSends) : AllSends[k][4] = FALSE
       /\ Len(CodeWrites) = 0
       /\ code[idx] = row0.code
       /\ (pc = "rowend" /\ ~raised => status[idx] = "Rejected")

C3_Witness ==
  /\ pc = "rowend" /\ ~raised
  /\ Len(Lookups) = 1 /\ Lookups[1][3].error = "" /\ Lookups[1][3].days = 89
  /\ Len(SendsOf("rejection")) = 1
  /\ SendsOf("rejection")[1][5] = FALSE
  /\ status[idx] = "Rejected"

\* C4: fail closed.  In every state, a row whose lookup failed or returned an
\* age below the minimum has had no acceptance message and no code written; the
\* failed lookup raises nothing, and the row ends as 'Rejected' exactly as an
\* under-age row does, never as 'Processed', and as 'Error' only when a sheet
\* call raised.
C4_FailClosed ==
  /\ OtherRowsKept
  /\ \A k \in 1..Len(events) :
       (events[k][1] = "lookup" /\ LookupSaysNo(events[k][3])) =>
         /\ \A j \in 1..Len(events) :
              /\ ~(events[j][1] = "send" /\ events[j][2] = "acceptance")
              /\ ~(events[j][1] = "write" /\ events[j][2] = "code")
         /\ code[idx] = row0.code
         /\ status[idx] # "Processed"
         /\ (k = Len(events) => pc = "reject" /\ ~raised)
         /\ (status[idx] = "Error" => raised \/ row0.status = "Error")
         /\ (pc = "rowend" /\ ~raised => status[idx] = "Rejected")

C4_Witness ==
  /\ pc = "rowend" /\ ~raised
  /\ Len(Lookups) = 1 /\ Lookups[1][3].error = "RateLimited"
  /\ row0.code = Empty /\ code[idx] = Empty
  /\ status[idx] = "Rejected"


\* the code cell of the current row has been read (the row passed every check)
CodeCellRead == \E k \in 1..Len(events) : events[k] = <<"read", "code", TRUE>>

\* C5: for a row that passed all checks the code cell is written in the run if
\* and only if it was empty when read, and then with the code just generated;
\* no step of any run changes or clears a code cell that is not empty.
C5_CodeOnce ==
  /\ OtherRowsKept
  /\ Len(CodeWrites) <= 1
  /\ ~CodeCellRead => Len(CodeWrites) = 0
  /\ CodeCellRead =>
       /\ (Len(CodeWrites) = 1) <=> (row0.code = Empty)
       /\ \A k \in 1..Len(CodeWrites) :
            /\ CodeWrites[k][3] = gen
            /\ CodeWrites[k][4] => code[idx] = gen /\ gen \in Codes
            /\ ~CodeWrites[k][4] => code[idx] = Empty /\ raised
  /\ row0 # NoCells /\ row0.code # Empty => code[idx] = row0.code

C5_NeverOverwritten ==
  [](C5_CodeOnce)
    /\ [][\A r \in Rows : code[r] # Empty => code'[r] = code[r]]_vars

\* a rerun of a row whose code was set by an earlier run: another code is
\* generated, the cell keeps the first one
C5_Witness ==
  /\ pc = "send"
  /\ CodeCellRead
  /\ row0.code # Empty
  /\ gen # row0.code
  /\ code[idx] = row0.code
  /\ Len(CodeWrites) = 0

\* C6: an eligible row gets at least one and at most MAX_DM_RETRIES acceptance
\* attempts, none after the first that succeeds; the first goes out with the
\* retry flag false, every later one with the retry flag true.
RetryLoopOver ==
  \/ pc = "update"
  \/ \E k \in 1..Len(StatusWrites) : StatusWrites[k][3] \in { "Processed", "Failed" }

C6_RetryCeiling ==
  LET A == SendsOf("acceptance")
  IN /\ Len(A) <= 3
     /\ \A k \in 1..Len(A) :
          /\ A[k][4] = (k > 1)
          /\ A[k][5] => k = Len(A)
     /\ Len(A) > 0 => Len(Lookups) = 1 /\ ~LookupSaysNo(Lookups[1][3])
     /\ pc = "send" => Len(A) < 3 /\ \A k \in 1..Len(A) : ~A[k][5]
     /\ RetryLoopOver =>
          /\ Len(A) >= 1
          /\ Len(A) < 3 => A[Len(A)][5]

C6_Witness ==
  LET A == SendsOf("acceptance")
  IN /\ pc = "update"
     /\ Len(A) = 3
     /\ ~A[1][5] /\ ~A[2][5] /\ A[3][5]
     /\ ~A[1][4] /\ A[2][4] /\ A[3][4]

\* C7: an eligible row ends as 'Processed' with the success marker exactly when
\* one of its delivery attempts succeeded, otherwise (all MAX_DM_RETRIES failed)
\* as 'Failed' with the failure marker and a code in its code cell; no iteration
\* leaves its row with 'Processed' next to the failure marker or 'Failed' next
\* to the success marker (a skipped row stays as it was).
Disagree(c) ==
  \/ c.status = "Processed" /\ c.dm_status = FailedMarker
  \/ c.status = "Failed" /\ c.dm_status = SentMarker

SkippedInLoop ==
  /\ OtherRowsKept
  /\ (row0 # NoCells /\ row0.status \in TerminalStatuses) =>
       /\ Len(Lookups) = 0
       /\ Len(AllSends) = 0
       /\ Len(Records) = 0
       /\ Len(CodeWrites) = 0
       /\ code[idx] = row0.code
       /\ dm_status[idx] = row0.dm_status
       /\ ~raised => /\ status[idx] = row0.status
                     /\ events \in { << >>, << <<"read", "status", TRUE>> >> }
                     /\ pc \in { "status", "rowend" }

\* C8: a row that is 'Processed', 'Rejected' or 'Opted Out' when a run
\* starts keeps its status, code and DM-status through the run and gets no
\* lookup and no message: setup_sheet leaves its cells alone, and the loop
\* does nothing for it but read its status.
C8_SkipList ==
  /\ [](SkippedInLoop)
  /\ [][pc = "setup" =>
         \A r \in Rows : status[r] \in TerminalStatuses =>
           /\ status'[r] = status[r]
           /\ code'[r] = code[r]
           /\ dm_status'[r] = dm_status[r]]_vars

\* C9: a fault raised while a row is processed is caught for that row, which
\* ends as 'Error', and never ends the run before the last row, not even when
\* the error handler's own status write raises.
C9_FaultIsolation ==
  /\ (pc = "rowend" /\ raised) => status[idx] = "Error"
  /\ pc = "done" => idx = LastRow + 1
  /\ pc \in { "fatal", "crashed" } => cause \in { "connect", "setup", "records" }

\* C10: when the clients cannot be built, the spreadsheet cannot be opened or
\* setup_sheet fails, the run is over: no data row has been read or written,
\* nothing looked up, nothing sent.
C10_WholeRunFailure ==
  /\ cause \in { "connect", "setup" } =>
       /\ pc \in { "fatal", "crashed" }
       /\ ~rowOps
       /\ events = << >>
       /\ \A r \in Rows : Cells(r) = snap[r]
  /\ pc \in { "records", "loop", "status", "data", "checks", "reject", "rejected",
              "generate", "send", "update", "except", "rowend", "done" } =>
       cause = ""


\* C11 as claimed: a row whose handle lacks the 'u/' prefix ends as
\* 'Invalid Format' whatever its DM preference.
C11_InvalidWhateverPreference ==
  (pc = "rowend" /\ ~raised /\ NotSkipped /\ Len(Records) = 1 /\ ~HandleOk) =>
    status[idx] = "Invalid Format"

\* C11 as the code has it: the preference is tested first, so a row whose
\* handle lacks the prefix ends as 'Invalid Format' when its preference is one
\* of the accepted literals and as 'Opted Out' when it is not; in both cases
\* nothing is looked up and no code is generated.
C11_PreferenceFirst ==
  (NotSkipped /\ Len(Records) = 1 /\ ~HandleOk) =>
    /\ Len(Lookups) = 0
    /\ gen = Empty
    /\ Len(CodeWrites) = 0
    /\ (pc = "rowend" /\ ~raised) =>
         status[idx] = (IF PrefAccepted THEN "Invalid Format" ELSE "Opted Out")

C11_Witness ==
  /\ pc = "rowend" /\ ~raised
  /\ NotSkipped /\ Len(Records) = 1
  /\ Records[1][2] = <<"a">>
  /\ Records[1][3] = <<"No", "thanks">>
  /\ status[idx] = "Opted Out"


\* ------------------------------------------------------------ setup_sheet
\* the wording of the claims: a header cell stands for a required name when
\* it differs from it by blanks at its ends only, or, in
\* immediate_response_script.py, by that and the case of its letters
Tolerated(cell, name) ==
  \/ Strip(cell) = name
  \/ variant = "immediate" /\ Lower(Strip(cell)) = Lower(name)

PlacesOf(row1, name) == { i \in 1..Len(row1) : Tolerated(row1[i], name) }

KeySet == { "username", "dm_pref", "code", "status", "dm_status" }

\* setup_sheet has returned
Returned == pc = "records"

\* setup_sheet has raised its configuration error
ConfigurationError == variant = "immediate" /\ pc = "fatal" /\ cause = "setup"

\* C12: when setup_sheet has returned, the mapping has the five keys, its
\* indices are 1-based and pairwise distinct, and the cell of row 1 at the
\* index of each key holds, once trimmed, the display name of that key.
C12_MappingAgreesWithHeader ==
  Returned =>
    /\ DOMAIN col = KeySet
    /\ \A k \in KeySet : col[k] >= 1
    /\ \A k, l \in KeySet : k # l => col[k] # col[l]
    /\ \A k \in KeySet :
         col[k] <= Len(header) /\ Strip(header[col[k]]) = COLUMN_MAP[k]

\* C13: a required name that the header row holds in a tolerated form is
\* resolved to a column that holds it and is not written to the sheet again,
\* and a header row that holds all five so raises no configuration error.
C13_HeaderTolerance ==
  [][pc = "setup" =>
       /\ \A k \in KeySet :
            PlacesOf(header, COLUMN_MAP[k]) # {} =>
              /\ \A c \in batch' \ batch : c.value # COLUMN_MAP[k]
              /\ \A i \in (Len(header) + 1)..Len(header') :
                   header'[i] # COLUMN_MAP[k]
              /\ Returned' => col'[k] \in PlacesOf(header, COLUMN_MAP[k])
       /\ (\A k \in KeySet : PlacesOf(header, COLUMN_MAP[k]) # {}) =>
            ~ConfigurationError']_vars

\* the required names that no cell of the header row stands for, in the order
\* of the specification
MissingNames(row1) ==
  SelectSeq(<< NameUsername, NameDmPref, NameCode, NameStatus, NameDmStatus >>,
            LAMBDA n : PlacesOf(row1, n) = {})

\* C14: setup_sheet changes no cell below row 1 and no header cell that was
\* there; when it returns, row 1 is the old header row followed by the
\* missing names in the order of the specification, so the same row when
\* none is missing.
C14_HeaderRowOnly ==
  [][pc = "setup" =>
       /\ batch' = batch
       /\ \A r \in Rows : /\ status'[r] = status[r]
                          /\ code'[r] = code[r]
                          /\ dm_status'[r] = dm_status[r]
       /\ Len(header') >= Len(header)
       /\ SubSeq(header', 1, Len(header)) = header
       /\ Returned' => header' = header \o MissingNames(header)]_vars


\* ------------------------------------------------------- the two entry points
Sleeps == EventsOf("sleep")

SendsThatSucceeded == SelectSeq(AllSends, LAMBDA e : e[5])

\* a call of the sheet store has raised in the current iteration
SheetFault ==
  \E k \in 1..Len(events) :
    /\ events[k][1] \in { "read", "write" }
    /\ ~events[k][Len(events[k])]

\* what main.py does in an iteration: the only delays are the SendDelay after
\* each send that succeeded, and a record without the preference key is a row
\* with an empty preference, so it ends as 'Opted Out'
AsMain ==
  /\ Sleeps = [k \in 1..Len(SendsThatSucceeded) |-> <<"sleep", SendDelay>>]
  /\ (Len(Records) = 1 /\ Records[1][3] = Missing /\ ~SheetFault) =>
       /\ ~raised
       /\ pc = "rowend" => status[idx] = "Opted Out"

\* C15: the two entry points behave alike: on the same row and the same
\* answers of the collaborators an iteration of immediate_response_script.py
\* makes the delays and reaches the final status that an iteration of main.py
\* makes and reaches.
C15_SameBehaviour == AsMain


\* ---------------------------------------------------------------- the retries
\* the places of the acceptance attempts among the events of the iteration
AcceptanceAt ==
  { k \in 1..Len(events) : events[k][1] = "send" /\ events[k][2] = "acceptance" }

\* C16: between an acceptance attempt and the next one for the same row lies a
\* delay of RetryDelay, and no delay of RetryDelay comes after an attempt that
\* succeeded.
C16_DelayBetweenAttempts ==
  /\ \A i, j \in AcceptanceAt :
       (i < j /\ \A m \in AcceptanceAt : ~(i < m /\ m < j)) =>
         \E k \in (i + 1)..(j - 1) : events[k] = <<"sleep", RetryDelay>>
  /\ \A i \in AcceptanceAt :
       events[i][5] =>
         \A k \in (i + 1)..Len(events) : events[k] # <<"sleep", RetryDelay>>


\* ------------------------------------------------------------------ the loop
\* the run is over
RunOver == pc \in { "done", "fatal", "crashed" }

\* the run came as far as the loop: the clients were built, setup_sheet
\* returned and the records were read
LoopReached == cause \notin { "connect", "setup", "records" }

\* C17: a run that came as far as the loop goes through the rows in the order
\* of the sheet, touches the cells of a row during the iteration of that row
\* alone, and is over only when the last row has had its iteration.
C17_EveryRowInOrder ==
  /\ OtherRowsKept
  /\ pc \in { "status", "data", "checks", "reject", "rejected", "generate",
              "send", "update", "except", "rowend" } => idx \in Rows
  /\ (RunOver /\ LoopReached) => (pc = "done" /\ idx = LastRow + 1)


\* ------------------------------------------------------------- account names
\* a handle without its first two characters and without blanks at its ends
WithoutPrefix(h) == Strip(SubSeq(h, 3, Len(h)))

\* C18: for a handle that passed the format check, the account that is looked
\* up and the account that is written to are both the trimmed handle without
\* its two-character prefix.
C18_HandleStripping ==
  HandleOk =>
    /\ \A k \in 1..Len(Lookups) :
         Lookups[k][2] = WithoutPrefix(Strip(Records[1][2]))
    /\ \A k \in 1..Len(AllSends) :
         AllSends[k][3] = WithoutPrefix(Strip(Records[1][2]))


\* --------------------------------------------------------- codes in messages
\* C19: every acceptance message carries the code that the code cell of its
\* row holds when the message is sent.  (The cell is read and, if at all,
\* written before the first attempt, and not touched again in the iteration.)
C19_MessageCarriesSheetCode ==
  \A k \in AcceptanceAt : events[k][6] = code[idx]


\* ------------------------------------------------------- duplicate delivery
\* an acceptance message has been delivered in the current iteration
DeliveredNow == \E k \in AcceptanceAt : events[k][5]

\* an acceptance message was delivered for the current row by an earlier run:
\* the success marker is written to the DM Status cell after a delivery only
DeliveredBefore == row0.dm_status = SentMarker

\* C20: a row gets at most one acceptance message delivered, whatever fails:
\* the iteration that delivered it ends with the row 'Processed', and a row
\* that has had its message is not sent another one by a later run.
C20_NoDuplicateDelivery ==
  /\ (pc = "rowend" /\ DeliveredNow) => status[idx] = "Processed"
  /\ ~(DeliveredBefore /\ DeliveredNow)

====
